---------------------------- MODULE Spec2Model ----------------------------
(***************************************************************************)
(* createBullMqConnection (bullmq-connection-options.factory.ts): the      *)
(* factory that reads process.env.NODE_ENV and one of two URL settings of  *)
(* a ConfigService, parses the URL, builds ioredis RedisOptions, logs one  *)
(* line and returns a new IORedis client.                                  *)
(*                                                                         *)
(* JavaScript strings are sequences of one-character strings, so that URL  *)
(* parsing, Number() and template formatting are computed, not assumed.    *)
(* An optional value (undefined or a value) is <<>> or <<v>>.              *)
(***************************************************************************)
EXTENDS Integers, Sequences, FiniteSets, TLC

\* ------------------------------------------------------------ bounds

\* Calls made to createBullMqConnection in one run of the process.
MaxCalls == 2

\* ------------------------------------------------------------ strings

None == <<>>
Some(v) == <<v>>
IsSome(o) == o # <<>>

Digits == <<"0", "1", "2", "3", "4", "5", "6", "7", "8", "9">>
Lowers == <<"a", "b", "c", "d", "e", "f", "g", "h", "i", "j", "k", "l", "m",
            "n", "o", "p", "q", "r", "s", "t", "u", "v", "w", "x", "y", "z">>
Uppers == <<"A", "B", "C", "D", "E", "F", "G", "H", "I", "J", "K", "L", "M",
            "N", "O", "P", "Q", "R", "S", "T", "U", "V", "W", "X", "Y", "Z">>

Range(s) == {s[i] : i \in 1..Len(s)}
IsDigit(c) == c \in Range(Digits)
IsAlpha(c) == c \in Range(Lowers) \cup Range(Uppers)

\* ASCII lowercase of one character.
ToLower(c) ==
  IF c \in Range(Uppers)
    THEN Lowers[CHOOSE i \in 1..Len(Uppers) : Uppers[i] = c]
    ELSE c

LowerStr(s) == [i \in 1..Len(s) |-> ToLower(s[i])]

DigitVal(c) == (CHOOSE i \in 1..Len(Digits) : Digits[i] = c) - 1

\* The first index of character c in s, 0 when there is none.
IndexOf(s, c) ==
  IF \E i \in 1..Len(s) : s[i] = c
    THEN CHOOSE i \in 1..Len(s) : s[i] = c /\ \A j \in 1..(i - 1) : s[j] # c
    ELSE 0

\* The last index of character c in s, 0 when there is none.
LastIndexOf(s, c) ==
  IF \E i \in 1..Len(s) : s[i] = c
    THEN CHOOSE i \in 1..Len(s) : s[i] = c /\ \A j \in (i + 1)..Len(s) : s[j] # c
    ELSE 0

\* s[from..to], empty when from > to.
Slice(s, from, to) == [i \in 1..(IF to >= from THEN to - from + 1 ELSE 0) |-> s[from + i - 1]]

RECURSIVE Flatten(_)
Flatten(ss) == IF ss = <<>> THEN <<>> ELSE Head(ss) \o Flatten(Tail(ss))

\* Decimal value of a string of digits (the empty string gives 0).
RECURSIVE DecimalValue(_)
DecimalValue(s) ==
  IF s = <<>> THEN 0
  ELSE 10 * DecimalValue(Slice(s, 1, Len(s) - 1)) + DigitVal(s[Len(s)])

\* Number(s) || 6379: a default port substituted for a URL without one.
NumberOrDefault(s) == IF s = <<>> THEN 6379 ELSE DecimalValue(s)

\* Number(s) for the strings a URL's port getter returns: "" is 0, a string
\* of digits is its value.
Number(s) == DecimalValue(s)

\* String(n) of a non-negative integer, as template interpolation does it.
RECURSIVE NumberToString(_)
NumberToString(n) ==
  IF n < 10 THEN <<Digits[n + 1]>>
  ELSE NumberToString(n \div 10) \o <<Digits[(n % 10) + 1]>>

\* ------------------------------------------------------------ new URL()

\* The largest port the URL parser accepts.
MaxPortValue == 65535

\* Leading and trailing spaces are stripped before parsing.
RECURSIVE TrimLeft(_)
TrimLeft(s) == IF s # <<>> /\ Head(s) = " " THEN TrimLeft(Tail(s)) ELSE s
RECURSIVE TrimRight(_)
TrimRight(s) ==
  IF s # <<>> /\ s[Len(s)] = " " THEN TrimRight(Slice(s, 1, Len(s) - 1)) ELSE s
Trim(s) == TrimRight(TrimLeft(s))

IsSchemeChar(c) == IsAlpha(c) \/ IsDigit(c) \/ c \in {"+", "-", "."}

\* Length of the scheme of s (the index of its ":" minus one), 0 when s
\* does not start with a scheme.
SchemeLen(s) ==
  LET k == IndexOf(s, ":")
  IN  IF k >= 2 /\ IsAlpha(s[1]) /\ \A i \in 2..(k - 1) : IsSchemeChar(s[i])
        THEN k - 1
        ELSE 0

\* The authority of "//authority/path?query#fragment": up to the first
\* "/", "?" or "#".
AuthorityOf(rest) ==
  LET ends == {i \in 1..Len(rest) : rest[i] \in {"/", "?", "#"}}
      stop == IF ends = {} THEN Len(rest) + 1
              ELSE CHOOSE i \in ends : \A j \in ends : i <= j
  IN  Slice(rest, 1, stop - 1)

\* Percent-encoding of one character of the userinfo.
UserinfoEncode(c) ==
  CASE c = " " -> <<"%", "2", "0">>
    [] c = ":" -> <<"%", "3", "A">>
    [] c = "@" -> <<"%", "4", "0">>
    [] OTHER   -> <<c>>

EncodeUserinfo(s) == Flatten([i \in 1..Len(s) |-> UserinfoEncode(s[i])])

\* Code points an opaque host may not hold (those of the model's alphabet).
ForbiddenHostChars == {" ", "#", "/", ":", "<", ">", "?", "@", "[", "\\", "]", "^", "|"}

\* The leading zeros of a port are dropped by the serialisation.
RECURSIVE StripZeros(_)
StripZeros(s) ==
  IF Len(s) > 1 /\ Head(s) = "0" THEN StripZeros(Tail(s)) ELSE s

InvalidUrl == [ok |-> FALSE]

ParsedUrl(protocol, username, password, hostname, port) ==
  [ok |-> TRUE, protocol |-> protocol, username |-> username,
   password |-> password, hostname |-> hostname, port |-> port]

\* host[:port] of an authority, after the userinfo is taken off.
ParseHostPort(protocol, username, password, hostport) ==
  LET k    == IndexOf(hostport, ":")
      host == IF k = 0 THEN hostport ELSE Slice(hostport, 1, k - 1)
      port == IF k = 0 THEN <<>> ELSE Slice(hostport, k + 1, Len(hostport))
  IN  IF k # 0 /\ host = <<>> THEN InvalidUrl
      ELSE IF \E i \in 1..Len(host) : host[i] \in ForbiddenHostChars THEN InvalidUrl
      ELSE IF \E i \in 1..Len(port) : ~IsDigit(port[i]) THEN InvalidUrl
      ELSE IF DecimalValue(port) > MaxPortValue THEN InvalidUrl
      ELSE ParsedUrl(protocol, username, password, host,
                     IF port = <<>> THEN <<>> ELSE StripZeros(port))

\* A lenient parser (the legacy url.parse): never throws, and gives empty
\* fields for what it cannot parse.
NewURLLenient(input) ==
  LET s == Trim(input)
      n == SchemeLen(s)
  IN  ParsedUrl(LowerStr(Slice(s, 1, n)) \o <<":">>, <<>>, <<>>, <<>>, <<>>)

\* new URL(input) for a URL of a non-special scheme (redis:, rediss:):
\* the fields the factory reads, or InvalidUrl when the constructor throws.
NewURL(input) ==
  LET s        == Trim(input)
      n        == SchemeLen(s)
      protocol == LowerStr(Slice(s, 1, n)) \o <<":">>
      rest     == Slice(s, n + 2, Len(s))
  IN  IF n = 0 THEN InvalidUrl
      ELSE IF Len(rest) < 2 \/ rest[1] # "/" \/ rest[2] # "/"
        THEN ParsedUrl(protocol, <<>>, <<>>, <<>>, <<>>)
      ELSE
        LET auth     == AuthorityOf(Slice(rest, 3, Len(rest)))
            at       == LastIndexOf(auth, "@")
            userinfo == Slice(auth, 1, at - 1)
            hostport == Slice(auth, at + 1, Len(auth))
            colon    == IndexOf(userinfo, ":")
            user     == IF colon = 0 THEN userinfo ELSE Slice(userinfo, 1, colon - 1)
            pass     == IF colon = 0 THEN <<>>
                        ELSE Slice(userinfo, colon + 1, Len(userinfo))
        IN  IF at # 0 /\ hostport = <<>> THEN InvalidUrl
            ELSE ParseHostPort(protocol, EncodeUserinfo(user),
                               EncodeUserinfo(pass), hostport)

\* ------------------------------------------------------------ inputs

\* Values of process.env.NODE_ENV: unset, "development", and others.
NodeEnvs == {None, Some("development"), Some("production"), Some("Development")}

\* "redis://u:p@h:12"
UrlFull == <<"r", "e", "d", "i", "s", ":", "/", "/", "u", ":", "p", "@", "h", ":", "1", "2">>
\* "rediss://:p@h:63"
UrlTls == <<"r", "e", "d", "i", "s", "s", ":", "/", "/", ":", "p", "@", "h", ":", "6", "3">>
\* "redis://h"
UrlNoPort == <<"r", "e", "d", "i", "s", ":", "/", "/", "h">>
\* "REDISS://h:7"
UrlUpperScheme == <<"R", "E", "D", "I", "S", "S", ":", "/", "/", "h", ":", "7">>
\* "redis:h"
UrlOpaque == <<"r", "e", "d", "i", "s", ":", "h">>
\* "redis://h:65536"
UrlPortTooBig == <<"r", "e", "d", "i", "s", ":", "/", "/", "h", ":", "6", "5", "5", "3", "6">>
\* "redis://h:012/0"
UrlLeadingZeros == <<"r", "e", "d", "i", "s", ":", "/", "/", "h", ":", "0", "1", "2", "/", "0">>
\* "redis://u@"
UrlNoHost == <<"r", "e", "d", "i", "s", ":", "/", "/", "u", "@">>
\* "not a url"
NotAUrl == <<"n", "o", "t", " ", "a", " ", "u", "r", "l">>
\* " "
Blank == <<" ">>
\* ""
Empty == <<>>

\* Values a setting may hold: undefined, or one of the strings above.
UrlStrings == {UrlFull, UrlTls, UrlNoPort, UrlUpperScheme, UrlOpaque, UrlPortTooBig, UrlLeadingZeros, UrlNoHost, NotAUrl, Blank, Empty}
SettingValues == {None} \cup {Some(u) : u \in UrlStrings}

ConfigServiceOf(public, private) ==
  [REDIS_URL_PUBLIC |-> public, REDIS_URL_PRIVATE |-> private]

\* The configuration sources (ConfigService instances) a call may be given:
\* only one of the two settings defined, with any value, or both defined.
ConfigServices ==
  {ConfigServiceOf(v, None) : v \in SettingValues}
    \cup {ConfigServiceOf(None, v) : v \in SettingValues}
    \cup {ConfigServiceOf(Some(UrlTls), Some(UrlFull)),
          ConfigServiceOf(Some(UrlFull), Some(UrlTls)),
          ConfigServiceOf(Some(UrlTls), Some(UrlTls))}

\* ------------------------------------------------------------ state

VARIABLES
  NODE_ENV,        \* process.env.NODE_ENV
  pc,              \* position of the running call, "idle" between calls
  configService,   \* the argument of the running call
  isLocal,         \* local of the running call
  redisUrlString,  \* local: the setting read, None before the read
  redisUrl,        \* local: the parsed URL, None before the parse
  options,         \* local: the RedisOptions, None before they are built
  effects,         \* what the running call has done outside itself, in order
  emitted,         \* the log lines the running call has emitted
  logger,          \* every line given to Logger.log, in order
  heap,            \* the IORedis clients constructed, by identity (index)
  history          \* the completed calls, in order

vars == <<NODE_ENV, pc, configService, isLocal, redisUrlString, redisUrl,
          options, effects, emitted, logger, heap, history>>

locals == <<configService, isLocal, redisUrlString, redisUrl, options,
            effects, emitted>>

NoConfigService == ConfigServiceOf(None, None)

\* ------------------------------------------------------------ the factory

\* A comparison that ignores the case of the first letter.
IsLocalAnyCase(env) == env \in {Some("development"), Some("Development")}

\* const isLocal = process.env.NODE_ENV === 'development'
IsLocal(env) == env = Some("development")

\* The key of the branch taken.
SelectedKey(local) == IF local THEN "REDIS_URL_PUBLIC" ELSE "REDIS_URL_PRIVATE"

\* configService.get<string>(key)
ConfigGet(cs, key) ==
  IF key = "REDIS_URL_PUBLIC" THEN cs.REDIS_URL_PUBLIC ELSE cs.REDIS_URL_PRIVATE

\* value === undefined : the empty string passes.
FalsyUndefinedOnly(o) == o = None

\* !value : undefined and "" are falsy.
Falsy(o) == o = None \/ o = Some(<<>>)

\* value || undefined
OrUndefined(s) == IF s = <<>> THEN None ELSE Some(s)

MissingError(key) ==
  [name |-> "Error", message |-> <<key, " is not defined in environment variables.">>]

InvalidUrlError == [name |-> "TypeError", message |-> <<"Invalid URL">>]

\* The development branch with TLS set whatever the scheme.
LocalOptionsTlsAlways(u) ==
  [host     |-> u.hostname,
   port     |-> Number(u.port),
   family   |-> None,
   username |-> OrUndefined(u.username),
   password |-> OrUndefined(u.password),
   tls      |-> Some([servername |-> u.hostname]),
   maxRetriesPerRequest |-> "null"]

\* The options of the development branch.
LocalOptions(u) ==
  [host     |-> u.hostname,
   port     |-> Number(u.port),
   family   |-> None,
   username |-> OrUndefined(u.username),
   password |-> OrUndefined(u.password),
   tls      |-> IF u.protocol = <<"r", "e", "d", "i", "s", "s", ":">>
                  THEN Some([servername |-> u.hostname])
                  ELSE None,
   maxRetriesPerRequest |-> "null"]

\* The other branch with family 4 (IPv4 only) for a redis: URL.
RemoteOptionsFamilyByScheme(u) ==
  [host     |-> u.hostname,
   port     |-> Number(u.port),
   family   |-> IF u.protocol = <<"r", "e", "d", "i", "s", ":">> THEN Some(4) ELSE Some(0),
   username |-> OrUndefined(u.username),
   password |-> OrUndefined(u.password),
   tls      |-> None,
   maxRetriesPerRequest |-> "null"]

\* The other branch with the TLS rule of the development branch.
RemoteOptionsTlsByScheme(u) ==
  [host     |-> u.hostname,
   port     |-> Number(u.port),
   family   |-> Some(0),
   username |-> OrUndefined(u.username),
   password |-> OrUndefined(u.password),
   tls      |-> IF u.protocol = <<"r", "e", "d", "i", "s", "s", ":">>
                  THEN Some([servername |-> u.hostname])
                  ELSE None,
   maxRetriesPerRequest |-> "null"]

\* The options of the other branch.
RemoteOptions(u) ==
  [host     |-> u.hostname,
   port     |-> Number(u.port),
   family   |-> Some(0),
   username |-> OrUndefined(u.username),
   password |-> OrUndefined(u.password),
   tls      |-> None,
   maxRetriesPerRequest |-> "null"]

BuildOptions(local, u) == IF local THEN LocalOptions(u) ELSE RemoteOptions(u)

BoolToString(b) == IF b THEN "true" ELSE "false"

\* A log line that also prints the password.
LocalLogLineWithPassword(o) ==
  <<"Using ", "EXTERNAL", " Redis connection (Host: ">> \o o.host
    \o <<", Port: ">> \o NumberToString(o.port)
    \o <<", Password: ">> \o (IF IsSome(o.password) THEN o.password[1] ELSE <<>>)
    \o <<", TLS: ", BoolToString(IsSome(o.tls)), ")">>

\* The template strings given to Logger.log: literal chunks and the
\* characters of the interpolated values.
LocalLogLine(o) ==
  <<"Using ", "EXTERNAL", " Redis connection (Host: ">> \o o.host
    \o <<", Port: ">> \o NumberToString(o.port)
    \o <<", TLS: ", BoolToString(IsSome(o.tls)), ")">>

RemoteLogLine(o) ==
  <<"Using ", "INTERNAL", " Redis connection (Host: ">> \o o.host
    \o <<", Port: ">> \o NumberToString(o.port) \o <<")">>

LogLine(local, o) == IF local THEN LocalLogLine(o) ELSE RemoteLogLine(o)

\* new IORedis(options): the client keeps the options and, lazyConnect not
\* being set, starts connecting in its constructor.
NewIORedis(o) == [options |-> o, status |-> "connecting"]

Returned(id) == [kind |-> "returned", client |-> id, error |-> None]
Threw(e) == [kind |-> "threw", client |-> 0, error |-> Some(e)]

\* The call ends: its record is kept and its frame is dropped.
Complete(outcome, done) ==
  /\ history' = Append(history,
       [configService |-> configService, isLocal |-> isLocal,
        redisUrlString |-> redisUrlString, redisUrl |-> redisUrl,
        options |-> options, effects |-> done, emitted |-> emitted,
        outcome |-> outcome])
  /\ pc' = "idle"
  /\ configService' = NoConfigService
  /\ isLocal' = FALSE
  /\ redisUrlString' = None
  /\ redisUrl' = None
  /\ options' = None
  /\ effects' = <<>>
  /\ emitted' = <<>>

Init ==
  /\ NODE_ENV \in NodeEnvs
  /\ pc = "idle"
  /\ configService = NoConfigService
  /\ isLocal = FALSE
  /\ redisUrlString = None
  /\ redisUrl = None
  /\ options = None
  /\ effects = <<>>
  /\ emitted = <<>>
  /\ logger = <<>>
  /\ heap = <<>>
  /\ history = <<>>

\* createBullMqConnection(cs) is entered and reads NODE_ENV.
Call(cs) ==
  /\ pc = "idle"
  /\ Len(history) < MaxCalls
  /\ configService' = cs
  /\ isLocal' = IsLocal(NODE_ENV)
  /\ effects' = <<"process.env.NODE_ENV">>
  /\ pc' = "get"
  /\ UNCHANGED <<NODE_ENV, redisUrlString, redisUrl, options, emitted, logger,
                 heap, history>>

\* const redisUrlString = configService.get<string>(key)
GetUrlString ==
  /\ pc = "get"
  /\ redisUrlString' = ConfigGet(configService, SelectedKey(isLocal))
  /\ effects' = Append(effects, "configService.get " \o SelectedKey(isLocal))
  /\ pc' = "check"
  /\ UNCHANGED <<NODE_ENV, configService, isLocal, redisUrl, options, emitted,
                 logger, heap, history>>

\* if (!redisUrlString) throw new Error(...)
CheckDefined ==
  /\ pc = "check"
  /\ IF Falsy(redisUrlString)
       THEN Complete(Threw(MissingError(SelectedKey(isLocal))), effects)
       ELSE /\ pc' = "parse"
            /\ UNCHANGED <<locals, history>>
  /\ UNCHANGED <<NODE_ENV, logger, heap>>

\* const redisUrl = new URL(redisUrlString), which throws on a malformed URL
ParseUrl ==
  /\ pc = "parse"
  /\ LET u == NewURL(redisUrlString[1])
     IN  IF ~u.ok
           THEN Complete(Threw(InvalidUrlError), effects)
           ELSE /\ redisUrl' = Some(u)
                /\ pc' = "build"
                /\ UNCHANGED <<configService, isLocal, redisUrlString, options,
                               effects, emitted, history>>
  /\ UNCHANGED <<NODE_ENV, logger, heap>>

\* const options: RedisOptions = {...}
Build ==
  /\ pc = "build"
  /\ options' = Some(BuildOptions(isLocal, redisUrl[1]))
  /\ pc' = "log"
  /\ UNCHANGED <<NODE_ENV, configService, isLocal, redisUrlString, redisUrl,
                 effects, emitted, logger, heap, history>>

\* Logger.log(`Using ... Redis connection (...)`)
Log ==
  /\ pc = "log"
  /\ logger' = Append(logger, LogLine(isLocal, options[1]))
  /\ emitted' = Append(emitted, LogLine(isLocal, options[1]))
  /\ effects' = Append(effects, "Logger.log")
  /\ pc' = "return"
  /\ UNCHANGED <<NODE_ENV, configService, isLocal, redisUrlString, redisUrl,
                 options, heap, history>>

\* return options: no client is constructed.
ReturnOptionsOnly ==
  /\ pc = "return"
  /\ heap' = heap
  /\ Complete(Returned(0), effects)
  /\ UNCHANGED <<NODE_ENV, logger>>

\* A client kept from the first call and returned by the later ones.
ReturnShared ==
  /\ pc = "return"
  /\ heap' = IF heap = <<>> THEN <<NewIORedis(options[1])>> ELSE heap
  /\ Complete(Returned(1),
              IF heap = <<>> THEN Append(effects, "new IORedis") ELSE effects)
  /\ UNCHANGED <<NODE_ENV, logger>>

\* return new IORedis(options)
Return ==
  /\ pc = "return"
  /\ heap' = Append(heap, NewIORedis(options[1]))
  /\ Complete(Returned(Len(heap) + 1), Append(effects, "new IORedis"))
  /\ UNCHANGED <<NODE_ENV, logger>>

Next ==
  \/ \E cs \in ConfigServices : Call(cs)
  \/ GetUrlString
  \/ CheckDefined
  \/ ParseUrl
  \/ Build
  \/ Log
  \/ Return

Spec == Init /\ [][Next]_vars

\* ------------------------------------------------------------ properties

SchemeRedis == <<"r", "e", "d", "i", "s", ":">>
SchemeRediss == <<"r", "e", "d", "i", "s", "s", ":">>

ReadEnv == "process.env.NODE_ENV"
GetOf(key) == "configService.get " \o key
Logged == "Logger.log"
Constructed == "new IORedis"

Completed == {history[i] : i \in 1..Len(history)}
Succeeded == {h \in Completed : h.outcome.kind = "returned"}
Failed == {h \in Completed : h.outcome.kind = "threw"}

\* The deployment mode and its key, from NODE_ENV alone.
Development == NODE_ENV = Some("development")
ModeKey == IF Development THEN "REDIS_URL_PUBLIC" ELSE "REDIS_URL_PRIVATE"
OtherKey == IF Development THEN "REDIS_URL_PRIVATE" ELSE "REDIS_URL_PUBLIC"
ModeSetting(h) ==
  IF Development THEN h.configService.REDIS_URL_PUBLIC
  ELSE h.configService.REDIS_URL_PRIVATE

IsQuery(e) == e \in {GetOf("REDIS_URL_PUBLIC"), GetOf("REDIS_URL_PRIVATE")}
Queries(es) == SelectSeq(es, IsQuery)

\* The options held by the client a successful call returned.
ReturnedOptions(h) == heap[h.outcome.client].options

\* s occurs in line as a run of consecutive elements.
Contains(line, s) ==
  \E k \in 0..(Len(line) - Len(s)) : \A i \in 1..Len(s) : line[k + i] = s[i]

OptionFields ==
  {"host", "port", "family", "username", "password", "tls", "maxRetriesPerRequest"}

\* The strings of UrlStrings that new URL() rejects.
MalformedStrings == {NotAUrl, Blank, UrlPortTooBig, UrlNoHost}

\* C1: a call queries REDIS_URL_PUBLIC exactly when NODE_ENV is the string
\* "development" and REDIS_URL_PRIVATE for every other value (unset
\* included); it queries once, and never the key of the other profile.
C1_KeySelection ==
  /\ \A h \in Completed :
       /\ Queries(h.effects) = <<GetOf(ModeKey)>>
       /\ h.isLocal = Development
  /\ pc # "idle" => GetOf(OtherKey) \notin Range(effects)
  /\ pc \notin {"idle", "get"} => Queries(effects) = <<GetOf(ModeKey)>>
  /\ pc = "get" => Queries(effects) = <<>>

C1_Witness ==
  /\ NODE_ENV = None
  /\ \E h \in Completed :
       /\ IsSome(h.configService.REDIS_URL_PUBLIC)
       /\ Queries(h.effects) = <<GetOf("REDIS_URL_PRIVATE")>>

\* C2: when the key of the current mode is undefined or the empty string,
\* the call throws an Error whose message names that key, whatever the other
\* key holds; it reads no other key, reads once, builds no options, logs
\* nothing and constructs no client.
C2_MissingIsFatal ==
  \A h \in Completed :
    ModeSetting(h) \in {None, Some(Empty)} =>
      /\ h.outcome.kind = "threw"
      /\ h.outcome.client = 0
      /\ h.outcome.error =
           Some([name |-> "Error",
                 message |-> <<ModeKey, " is not defined in environment variables.">>])
      /\ h.effects = <<ReadEnv, GetOf(ModeKey)>>
      /\ h.redisUrl = None
      /\ h.options = None
      /\ h.emitted = <<>>

C2_Witness ==
  /\ Development
  /\ \E h \in Completed :
       /\ h.configService.REDIS_URL_PUBLIC = None
       /\ h.configService.REDIS_URL_PRIVATE = Some(UrlTls)
       /\ h.outcome.kind = "threw"
       /\ h.outcome.error[1].message[1] = "REDIS_URL_PUBLIC"
       /\ heap = <<>>

\* C3: when the selected key holds a non-empty string that is no URL, the
\* call throws and no options value exists at any point of it; every call
\* ends either with a client holding fully populated options or with an
\* error, never both.
C3_MalformedIsFatal ==
  /\ \A h \in Completed :
       ModeSetting(h) \in {Some(u) : u \in MalformedStrings} =>
         /\ h.outcome.kind = "threw"
         /\ h.outcome.error = Some([name |-> "TypeError", message |-> <<"Invalid URL">>])
         /\ h.options = None
         /\ h.emitted = <<>>
  /\ \A h \in Completed :
       \/ /\ h.outcome.kind = "returned"
          /\ h.outcome.error = None
          /\ h.outcome.client \in 1..Len(heap)
          /\ IsSome(h.options)
          /\ DOMAIN ReturnedOptions(h) = OptionFields
          /\ ModeSetting(h) \notin {Some(u) : u \in MalformedStrings}
       \/ /\ h.outcome.kind = "threw"
          /\ IsSome(h.outcome.error)
          /\ h.outcome.client = 0
          /\ h.options = None
  /\ IsSome(options) => pc \in {"log", "return"} /\ IsSome(redisUrl)
  /\ Len(heap) = Cardinality({i \in 1..Len(history) : history[i].outcome.kind = "returned"})

C3_Witness ==
  \E h \in Completed :
    /\ ModeSetting(h) = Some(NotAUrl)
    /\ h.outcome.kind = "threw"
    /\ h.options = None

\* C4: in development mode the TLS directive is present iff the URL's scheme
\* is rediss:, and its servername is the options' host; in any other mode
\* the TLS directive is absent whatever the scheme.
C4_TlsRulePerProfile ==
  \A h \in Succeeded :
    LET o == ReturnedOptions(h)
        scheme == h.redisUrl[1].protocol
    IN  /\ Development =>
             /\ IsSome(o.tls) <=> scheme = SchemeRediss
             /\ IsSome(o.tls) => o.tls[1] = [servername |-> o.host]
        /\ ~Development => o.tls = None
        /\ ModeSetting(h) \in {Some(UrlTls), Some(UrlUpperScheme)} =>
             scheme = SchemeRediss
        /\ ModeSetting(h) \in {Some(UrlFull), Some(UrlNoPort)} =>
             scheme = SchemeRedis

C4_Witness ==
  /\ Development
  /\ \E h \in Succeeded :
       /\ ModeSetting(h) = Some(UrlTls)
       /\ ReturnedOptions(h).tls = Some([servername |-> <<"h">>])

\* C5: the address-family hint is absent in development mode and 0 (dual
\* stack) in any other mode, whatever the URL.
C5_FamilyByMode ==
  \A h \in Succeeded :
    ReturnedOptions(h).family = IF Development THEN None ELSE Some(0)

C5_Witness ==
  /\ ~Development
  /\ \E g \in Succeeded, h \in Succeeded :
       /\ g.redisUrl[1].protocol = SchemeRedis
       /\ h.redisUrl[1].protocol = SchemeRediss
       /\ ReturnedOptions(g).family = Some(0)
       /\ ReturnedOptions(h).family = Some(0)

\* C6: in either mode host is the URL's hostname (possibly empty), port is
\* the URL's port as an integer with 0 for a URL without a port, username
\* and password are the URL's when non-empty and absent otherwise, and
\* maxRetriesPerRequest is null.
C6_FieldMapping ==
  \A h \in Succeeded :
    LET o == ReturnedOptions(h)
        u == h.redisUrl[1]
    IN  /\ o.host = u.hostname
        /\ o.port = DecimalValue(u.port)
        /\ u.port = <<>> => o.port = 0
        /\ o.username = IF u.username = <<>> THEN None ELSE Some(u.username)
        /\ o.password = IF u.password = <<>> THEN None ELSE Some(u.password)
        /\ o.maxRetriesPerRequest = "null"
        /\ ModeSetting(h) = Some(UrlFull) =>
             /\ o.host = <<"h">>
             /\ o.port = 12
             /\ o.username = Some(<<"u">>)
             /\ o.password = Some(<<"p">>)
        /\ ModeSetting(h) = Some(UrlTls) =>
             o.port = 63 /\ o.username = None /\ o.password = Some(<<"p">>)
        /\ ModeSetting(h) = Some(UrlNoPort) => o.host = <<"h">> /\ o.port = 0
        /\ ModeSetting(h) = Some(UrlOpaque) => o.host = <<>> /\ o.port = 0
        /\ ModeSetting(h) = Some(UrlLeadingZeros) => o.port = 12

C6_Witness ==
  \E g \in Succeeded, h \in Succeeded :
    /\ ModeSetting(g) = Some(UrlNoPort)
    /\ ReturnedOptions(g).port = 0
    /\ ModeSetting(h) = Some(UrlFull)
    /\ ReturnedOptions(h).port = 12

\* C7 as stated: the scheme alone decides the TLS directive, whatever the
\* mode: a rediss: URL always yields it, and two successful calls whose URLs
\* have the same scheme agree on it.
C7_TlsBySchemeAlone ==
  /\ \A h \in Succeeded :
       h.redisUrl[1].protocol = SchemeRediss => IsSome(ReturnedOptions(h).tls)
  /\ \A g \in Succeeded, h \in Succeeded :
       g.redisUrl[1].protocol = h.redisUrl[1].protocol =>
         (IsSome(ReturnedOptions(g).tls) <=> IsSome(ReturnedOptions(h).tls))

\* C7 as amended: the scheme and the mode together decide the TLS
\* directive: two successful calls in the same mode whose URLs have the same
\* scheme agree on it, and a rediss: URL yields it in development mode and
\* never in any other mode.
C7_TlsBySchemeAndMode ==
  /\ \A g \in Succeeded, h \in Succeeded :
       (g.isLocal = h.isLocal /\ g.redisUrl[1].protocol = h.redisUrl[1].protocol) =>
         (IsSome(ReturnedOptions(g).tls) <=> IsSome(ReturnedOptions(h).tls))
  /\ \A h \in Succeeded :
       h.redisUrl[1].protocol = SchemeRediss =>
         (IsSome(ReturnedOptions(h).tls) <=> Development)

C7_Witness ==
  /\ ~Development
  /\ \E g \in Succeeded, h \in Succeeded :
       /\ ModeSetting(g) = Some(UrlTls)
       /\ ModeSetting(h) = Some(UrlUpperScheme)
       /\ g.redisUrl[1].protocol = SchemeRediss
       /\ h.redisUrl[1].protocol = SchemeRediss
       /\ ReturnedOptions(g).tls = None
       /\ ReturnedOptions(h).tls = None

C9_LoggingRule ==
  /\ \A h \in Failed : h.emitted = <<>>
  /\ \A h \in Succeeded :
       LET o == ReturnedOptions(h)
           line == h.emitted[1]
       IN  /\ Len(h.emitted) = 1
           /\ line =
                <<"Using ", IF Development THEN "EXTERNAL" ELSE "INTERNAL",
                  " Redis connection (Host: ">>
                \o o.host \o <<", Port: ">> \o NumberToString(o.port)
                \o (IF Development
                      THEN <<", TLS: ", IF IsSome(o.tls) THEN "true" ELSE "false", ")">>
                      ELSE <<")">>)
           /\ IsSome(o.username) => ~Contains(line, o.username[1])
           /\ IsSome(o.password) => ~Contains(line, o.password[1])
           /\ o = h.options[1]
           /\ \E i \in 1..Len(h.effects), j \in 1..Len(h.effects) :
                i < j /\ h.effects[i] = Logged /\ h.effects[j] = Constructed
  /\ emitted # <<>> => pc = "return" /\ IsSome(options) /\ Len(emitted) = 1
  /\ pc = "return" => emitted # <<>>
  /\ Len(logger) = Cardinality({i \in 1..Len(history) : history[i].outcome.kind = "returned"})
                     + (IF pc = "return" THEN 1 ELSE 0)

C9_Witness ==
  /\ Development
  /\ \E h \in Succeeded :
       /\ ModeSetting(h) = Some(UrlFull)
       /\ Len(h.emitted) = 1
       /\ Contains(h.emitted[1], <<"h">>)
       /\ Contains(h.emitted[1], <<"1", "2">>)
       /\ ReturnedOptions(h).password = Some(<<"p">>)

\* C10: with NODE_ENV unchanged, two calls given the same configuration end
\* the same way (the same error, or clients holding equal options, after
\* the same effects and the same log line); every successful call returns a
\* client of its own; and a call starts from an empty frame, the clients of
\* earlier calls keeping the options they were built with.
C10_Idempotent ==
  /\ \A i \in 1..Len(history), j \in 1..Len(history) :
       (i < j /\ history[i].configService = history[j].configService) =>
         /\ history[i].outcome.kind = history[j].outcome.kind
         /\ history[i].outcome.error = history[j].outcome.error
         /\ history[i].effects = history[j].effects
         /\ history[i].emitted = history[j].emitted
         /\ history[i].options = history[j].options
         /\ history[i].outcome.kind = "returned" =>
              /\ ReturnedOptions(history[i]) = ReturnedOptions(history[j])
              /\ history[i].outcome.client # history[j].outcome.client
  /\ \A i \in 1..Len(history), j \in 1..Len(history) :
       (i < j /\ history[i].outcome.kind = "returned"
              /\ history[j].outcome.kind = "returned") =>
         history[i].outcome.client # history[j].outcome.client
  /\ \A h \in Succeeded : ReturnedOptions(h) = h.options[1]
  /\ pc = "idle" =>
       /\ effects = <<>>
       /\ redisUrlString = None
       /\ redisUrl = None
       /\ options = None
       /\ emitted = <<>>

C10_Witness ==
  \E i \in 1..Len(history), j \in 1..Len(history) :
    /\ i < j
    /\ history[i].configService = history[j].configService
    /\ history[i].outcome.kind = "returned"
    /\ history[j].outcome.kind = "returned"
    /\ history[i].outcome.client # history[j].outcome.client
    /\ ReturnedOptions(history[i]) = ReturnedOptions(history[j])

=============================================================================
